---- MODULE Spec2Model ----
(***************************************************************************)
(* Model of cubi_sak/snappy/pull_sheets.py: the SampleSheetBuilder visitor *)
(* (on_visit_material), first_value, check_args and the row rendering of   *)
(* build_sheet.                                                            *)
(*                                                                         *)
(* Python values are represented as follows.                               *)
(*   str        a sequence of one-character strings, "WES" is              *)
(*              <<"W","E","S">>; the empty str is <<>>                     *)
(*   None       the sentinel NoneVal, a one-element sequence whose element *)
(*              is not a single character, hence different from every str  *)
(*   exception  the name of its class, "none" when nothing was raised      *)
(*   dict       a sequence of [key, val] records in insertion order        *)
(***************************************************************************)
EXTENDS Integers, Sequences, FiniteSets, TLC

(***************************************************************************)
(* Bounds of the model.                                                    *)
(***************************************************************************)
\* Longest traversal: the number of on_visit_material calls before rendering.
MaxVisits == 3
\* Longest node_path handed to first_value in the specification SpecFV.
MaxPathLen == 2

(***************************************************************************)
(* Python builtins used by the code.                                       *)
(***************************************************************************)
NoneVal == <<"None">>

UpperChars == <<"A","B","C","D","E","F","G","H","I","J","K","L","M",
                "N","O","P","Q","R","S","T","U","V","W","X","Y","Z">>
LowerChars == <<"a","b","c","d","e","f","g","h","i","j","k","l","m",
                "n","o","p","q","r","s","t","u","v","w","x","y","z">>

UpperSet == {UpperChars[i] : i \in DOMAIN UpperChars}

\* The lower-case letter of each upper-case letter.
LowerOf ==
    [u \in UpperSet |-> LowerChars[CHOOSE i \in DOMAIN UpperChars : UpperChars[i] = u]]

LowerChar(c) == IF c \in UpperSet THEN LowerOf[c] ELSE c

\* str.lower()
lower(s) == [i \in 1..Len(s) |-> LowerChar(s[i])]

\* str.startswith(prefix)
startswith(s, prefix) ==
    /\ Len(s) >= Len(prefix)
    /\ SubSeq(s, 1, Len(prefix)) = prefix

\* str.split(sep) for a one-character separator: the list of segments.
RECURSIVE split(_, _)
split(s, sep) ==
    IF \A i \in 1..Len(s) : s[i] /= sep
    THEN <<s>>
    ELSE LET i == CHOOSE i \in 1..Len(s) :
                      s[i] = sep /\ \A j \in 1..(i - 1) : s[j] /= sep
         IN  <<SubSeq(s, 1, i - 1)>> \o split(SubSeq(s, i + 1, Len(s)), sep)

\* sep.join(xs) for a list of str.
RECURSIVE join(_, _)
join(sep, xs) ==
    IF Len(xs) = 0 THEN <<>>
    ELSE IF Len(xs) = 1 THEN xs[1]
    ELSE xs[1] \o sep \o join(sep, Tail(xs))

\* Truthiness of an Optional[str]: None and "" are falsy.
Truthy(x) == x /= NoneVal /\ x /= <<>>

\* x or default
OrElse(x, default) == IF Truthy(x) THEN x ELSE default

(***************************************************************************)
(* dict, in insertion order.                                               *)
(***************************************************************************)
Keys(d) == {d[i].key : i \in 1..Len(d)}

KeyList(d) == [i \in 1..Len(d) |-> d[i].key]

Has(d, k) == k \in Keys(d)

\* d[k] for a key that is present.
Get(d, k) == d[CHOOSE i \in 1..Len(d) : d[i].key = k].val

\* d.setdefault(k, v) in place of d[k] = v: a present key keeps its value.
dict_setitem_keep_existing(d, k, v) ==
    IF Has(d, k) THEN d ELSE Append(d, [key |-> k, val |-> v])

\* d[k] = v: a present key keeps its position, a new key is appended.
dict_setitem(d, k, v) ==
    IF Has(d, k)
    THEN [i \in 1..Len(d) |-> IF d[i].key = k THEN [key |-> k, val |-> v] ELSE d[i]]
    ELSE Append(d, [key |-> k, val |-> v])

(***************************************************************************)
(* String literals of the source.                                          *)
(***************************************************************************)
S_Family == <<"F","a","m","i","l","y">>
S_Batch == <<"B","a","t","c","h">>
S_Father == <<"F","a","t","h","e","r">>
S_Mother == <<"M","o","t","h","e","r">>
S_Sex == <<"S","e","x">>
S_DiseaseStatus == <<"D","i","s","e","a","s","e"," ","s","t","a","t","u","s">>
S_FolderName == <<"F","o","l","d","e","r"," ","N","a","m","e">>
S_InstrumentModel == <<"I","n","s","t","r","u","m","e","n","t"," ","M","o","d","e","l">>
S_LibraryKit == <<"L","i","b","r","a","r","y"," ","K","i","t">>
S_WGS == <<"W","G","S">>
S_WES == <<"W","E","S">>
S_Panel_seq == <<"P","a","n","e","l","_","s","e","q">>
S_FAM == <<"F","A","M">>
S_0 == <<"0">>
S_Dot == <<".">>
S_F == <<"F">>
S_M == <<"M">>
S_U == <<"U">>
S_Y == <<"Y">>
S_N == <<"N">>
S_female == <<"f","e","m","a","l","e">>
S_male == <<"m","a","l","e">>
S_unknown == <<"u","n","k","n","o","w","n">>
S_affected == <<"a","f","f","e","c","t","e","d">>
S_carrier == <<"c","a","r","r","i","e","r">>
S_unaffected == <<"u","n","a","f","f","e","c","t","e","d">>
S_Illumina == <<"I","l","l","u","m","i","n","a">>
S_Semicolon == <<";">>

\* Values standing for a raised exception where a str was expected.
KeyErrorVal == <<"KeyError">>
IndexErrorVal == <<"IndexError">>
AttributeErrorVal == <<"AttributeError">>

IsExc(x) == x \in {KeyErrorVal, IndexErrorVal, AttributeErrorVal}

\* The exception raised by evaluating the expressions xs in order, "none" if none.
FirstExc(xs) ==
    IF \A i \in 1..Len(xs) : ~IsExc(xs[i])
    THEN "none"
    ELSE xs[CHOOSE i \in 1..Len(xs) :
                IsExc(xs[i]) /\ \A j \in 1..(i - 1) : ~IsExc(xs[j])][1]

\* d[k] of a dict of str, KeyError for a missing key.
Subscript(d, k) == IF Has(d, k) THEN Get(d, k) ELSE KeyErrorVal

MAPPING_SEX ==
    << [key |-> S_female, val |-> S_F],
       [key |-> S_male, val |-> S_M],
       [key |-> S_unknown, val |-> S_U],
       [key |-> NoneVal, val |-> S_Dot] >>

MAPPING_STATUS ==
    << [key |-> S_affected, val |-> S_Y],
       [key |-> S_carrier, val |-> S_Y],
       [key |-> S_unaffected, val |-> S_N],
       [key |-> S_unknown, val |-> S_Dot],
       [key |-> NoneVal, val |-> S_Dot] >>

(***************************************************************************)
(* check_args: the post-processing of --library-types.                     *)
(***************************************************************************)
check_args(library_types_arg) ==
    IF Truthy(library_types_arg)
    THEN split(library_types_arg, ",")
    ELSE <<>>

(***************************************************************************)
(* ISA nodes. A material has a type and characteristics, a process has     *)
(* parameter values; an attribute a node does not have reads as ().        *)
(***************************************************************************)
Attr(name, value) == [name |-> name, value |-> value]

Material(type, name, characteristics) ==
    [kind |-> "material", type |-> type, name |-> name,
     characteristics |-> characteristics, parameter_values |-> <<>>]

Process(name, parameter_values) ==
    [kind |-> "process", type |-> "", name |-> name,
     characteristics |-> <<>>, parameter_values |-> parameter_values]

\* hasattr(x, "type")
HasType(x) == x.kind = "material"

(***************************************************************************)
(* first_value                                                             *)
(***************************************************************************)
\* The test of line 191-193 on one attribute x.
NameMatches(x, key, ignore_case) ==
    \/ ignore_case /\ lower(x.name) = lower(key)
    \/ ~ignore_case /\ x.name = key

NoHit == [found |-> FALSE, value |-> <<>>]

\* The innermost loop: the first x of xs whose name matches.
RECURSIVE ScanAttrs(_, _, _)
ScanAttrs(xs, key, ignore_case) ==
    IF Len(xs) = 0 THEN NoHit
    ELSE IF NameMatches(Head(xs), key, ignore_case)
         THEN [found |-> TRUE, value |-> Head(xs).value]
         ELSE ScanAttrs(Tail(xs), key, ignore_case)

ScanNode_params_first(node, key, ignore_case) ==
    LET p == ScanAttrs(node.parameter_values, key, ignore_case)
    IN  IF p.found THEN p ELSE ScanAttrs(node.characteristics, key, ignore_case)

\* The loop over attr_type: "characteristics", then "parameter_values".
ScanNode(node, key, ignore_case) ==
    LET c == ScanAttrs(node.characteristics, key, ignore_case)
    IN  IF c.found THEN c ELSE ScanAttrs(node.parameter_values, key, ignore_case)

\* first_value(key, node_path, default=None, ignore_case=True)
RECURSIVE first_value(_, _, _, _)
first_value(key, node_path, default, ignore_case) ==
    IF Len(node_path) = 0 THEN default
    ELSE LET hit == ScanNode(Head(node_path), key, ignore_case)
         IN  IF hit.found
             THEN join(S_Semicolon, hit.value)
             ELSE first_value(key, Tail(node_path), default, ignore_case)

(***************************************************************************)
(* SampleSheetBuilder.on_visit_material                                    *)
(***************************************************************************)
Source(family, source_name, batch_no, father, mother, sex, affected, sample_name) ==
    [family |-> family, source_name |-> source_name, batch_no |-> batch_no,
     father |-> father, mother |-> mother, sex |-> sex, affected |-> affected,
     sample_name |-> sample_name]

Sample(source, library_name, library_type, folder_name, seq_platform, library_kit) ==
    [source |-> source, library_name |-> library_name, library_type |-> library_type,
     folder_name |-> folder_name, seq_platform |-> seq_platform,
     library_kit |-> library_kit]

\* material_path = [x for x in node_path if hasattr(x, "type")]
MaterialPath(node_path) == SelectSeq(node_path, HasType)

\* {c.name: c for c in source.characteristics}: a later name replaces an earlier.
RECURSIVE CharacteristicsDict(_)
CharacteristicsDict(cs) ==
    IF Len(cs) = 0 THEN <<>>
    ELSE LET n == Len(cs)
         IN  dict_setitem(CharacteristicsDict(SubSeq(cs, 1, n - 1)), cs[n].name, cs[n])

\* characteristics[name].value[0]
CharValue0(characteristics, name) ==
    IF ~Has(characteristics, name) THEN KeyErrorVal
    ELSE LET value == Get(characteristics, name).value
         IN  IF Len(value) = 0 THEN IndexErrorVal ELSE value[1]

Outcome(exc, srcs, smps) == [exc |-> exc, sources |-> srcs, samples |-> smps]

\* The branch of line 209-221: record the Source of a sample of a study.
VisitSample(srcs, smps, material, source) ==
    LET characteristics == CharacteristicsDict(source.characteristics)
        args == << CharValue0(characteristics, S_Family),
                   source.name,
                   CharValue0(characteristics, S_Batch),
                   CharValue0(characteristics, S_Father),
                   CharValue0(characteristics, S_Mother),
                   CharValue0(characteristics, S_Sex),
                   CharValue0(characteristics, S_DiseaseStatus),
                   material.name >>
        exc == FirstExc(args)
    IN  IF exc /= "none"
        THEN Outcome(exc, srcs, smps)
        ELSE Outcome("none",
                     dict_setitem(srcs, material.name,
                                  Source(args[1], args[2], args[3], args[4],
                                         args[5], args[6], args[7], args[8])),
                     smps)

LibraryType_first_segment(library_name) ==
    LET seg == split(library_name, "-")[1]
    IN  IF startswith(seg, S_WGS) THEN S_WGS
        ELSE IF startswith(seg, S_WES) THEN S_WES
        ELSE IF startswith(seg, S_Panel_seq) THEN S_Panel_seq
        ELSE NoneVal

\* Line 225-232: the library type of library.name.split("-")[-1]; NoneVal where
\* the code raises Exception("Cannot infer library type from ...").
LibraryType(library_name) ==
    LET segs == split(library_name, "-")
        seg == segs[Len(segs)]
    IN  IF startswith(seg, S_WGS) THEN S_WGS
        ELSE IF startswith(seg, S_WES) THEN S_WES
        ELSE IF startswith(seg, S_Panel_seq) THEN S_Panel_seq
        ELSE NoneVal

VisitLibrary_default_source(srcs, smps, library, sample, node_path) ==
    LET library_type == LibraryType(library.name)
        source == IF Has(srcs, sample.name) THEN Get(srcs, sample.name)
                  ELSE Source(NoneVal, NoneVal, NoneVal, NoneVal, NoneVal,
                              NoneVal, NoneVal, sample.name)
    IN  IF library_type = NoneVal THEN Outcome("Exception", srcs, smps)
        ELSE Outcome("none", srcs,
                     dict_setitem(smps, sample.name,
                                  Sample(source, library.name, library_type,
                                         first_value(S_FolderName, node_path, NoneVal, TRUE),
                                         first_value(S_InstrumentModel, node_path, NoneVal, TRUE),
                                         first_value(S_LibraryKit, node_path, NoneVal, TRUE))))

\* The branch of line 222-241: record the Sample of a library.
VisitLibrary(srcs, smps, library, sample, node_path) ==
    LET library_type == LibraryType(library.name)
    IN  IF library_type = NoneVal THEN Outcome("Exception", srcs, smps)
        ELSE IF ~Has(srcs, sample.name) THEN Outcome("KeyError", srcs, smps)
        ELSE Outcome("none", srcs,
                     dict_setitem(smps, sample.name,
                                  Sample(Get(srcs, sample.name), library.name,
                                         library_type,
                                         first_value(S_FolderName, node_path, NoneVal, TRUE),
                                         first_value(S_InstrumentModel, node_path, NoneVal, TRUE),
                                         first_value(S_LibraryKit, node_path, NoneVal, TRUE))))

\* on_visit_material(material, node_path, study, assay) on the tables srcs, smps;
\* assay is TRUE when an assay is given (assay is not None).
on_visit_material(srcs, smps, material, node_path, assay) ==
    LET material_path == MaterialPath(node_path)
    IN  IF Len(material_path) = 0 THEN Outcome("IndexError", srcs, smps)
        ELSE IF material.type = "Sample Name" /\ ~assay
             THEN VisitSample(srcs, smps, material, material_path[1])
        ELSE IF material.type = "Library Name"
             THEN VisitLibrary(srcs, smps, material, material_path[1], node_path)
        ELSE Outcome("none", srcs, smps)

(***************************************************************************)
(* build_sheet: the data rows, each the list of its 13 cells before        *)
(* "\t".join(row).                                                         *)
(***************************************************************************)
\* None where a Sample is expected: builder.samples.get(sample_name, None).
NoneSample == [none |-> TRUE]

dict_get(d, k, default) == IF Has(d, k) THEN Get(d, k) ELSE default

\* x.attr of a Sample or None: AttributeError on None.
SampleAttr(sample, attr) ==
    IF sample = NoneSample THEN AttributeErrorVal
    ELSE CASE attr = "library_type" -> sample.library_type
           [] attr = "folder_name" -> sample.folder_name
           [] attr = "library_kit" -> sample.library_kit

\* x or "." of a value that may already be a raised exception.
OrDot(x) == IF IsExc(x) THEN x ELSE OrElse(x, S_Dot)

SexCell_no_lower(source) ==
    IF source.sex = NoneVal THEN AttributeErrorVal
    ELSE Subscript(MAPPING_SEX, source.sex)

\* Line 266: MAPPING_SEX[source.sex.lower()]
SexCell(source) ==
    IF source.sex = NoneVal THEN AttributeErrorVal
    ELSE Subscript(MAPPING_SEX, lower(source.sex))

\* Line 267: MAPPING_STATUS[source.affected.lower()]
StatusCell(source) ==
    IF source.affected = NoneVal THEN AttributeErrorVal
    ELSE Subscript(MAPPING_STATUS, lower(source.affected))

\* Line 268: sample.library_type or "." if sample else "."
LibraryTypeCell(sample) ==
    IF sample /= NoneSample THEN OrDot(SampleAttr(sample, "library_type")) ELSE S_Dot

\* Line 269: sample.folder_name or "." if sample else "."
FolderNameCell(sample) ==
    IF sample /= NoneSample THEN OrDot(SampleAttr(sample, "folder_name")) ELSE S_Dot

\* Line 274: sample.library_kit or "." if source else "."; a Source is an object
\* without __bool__ or __len__, hence always true.
LibraryKitCell(source, sample) == OrDot(SampleAttr(sample, "library_kit"))

\* Line 261-275: the cells of one row, in the order they are evaluated.
Row(source, sample, project_uuid) ==
    << OrElse(source.family, S_FAM),
       OrElse(source.source_name, S_Dot),
       OrElse(source.father, S_0),
       OrElse(source.mother, S_0),
       SexCell(source),
       StatusCell(source),
       LibraryTypeCell(sample),
       FolderNameCell(sample),
       IF source.batch_no = NoneVal THEN S_0 ELSE source.batch_no,
       S_Dot,
       project_uuid,
       S_Illumina,
       LibraryKitCell(source, sample) >>

\* The columns of the [Data] header, line 44-45.
COL_familyId == 1
COL_patientName == 2
COL_fatherName == 3
COL_motherName == 4
COL_sex == 5
COL_isAffected == 6
COL_libraryType == 7
COL_folderName == 8
COL_batchNo == 9
COL_libraryKit == 13

\* Line 259-276: one row per item of builder.sources, in the order of the dict.
SheetRows(srcs, smps, project_uuid) ==
    [i \in 1..Len(srcs) |->
        Row(srcs[i].val, dict_get(smps, srcs[i].key, NoneSample), project_uuid)]

\* The rendering part of build_sheet(config, project_uuid), line 257-279: the
\* exception it raises ("none" if none) and the data rows it returns.
build_sheet(config, srcs, smps, project_uuid) ==
    LET rows == SheetRows(srcs, smps, project_uuid)
        bad == {i \in 1..Len(rows) : FirstExc(rows[i]) /= "none"}
    IN  IF bad = {}
        THEN [exc |-> "none", rows |-> rows]
        ELSE [exc |-> FirstExc(rows[CHOOSE i \in bad : \A j \in bad : i <= j]),
              rows |-> <<>>]

(***************************************************************************)
(* The inputs: the nodes of the investigations the traversal is run on.    *)
(***************************************************************************)
SAMPLE_1 == <<"s","1">>
SAMPLE_2 == <<"s","2">>
SampleNames == {SAMPLE_1, SAMPLE_2}

PROJECT_UUID == <<"u","u","i","d">>

\* The characteristics of a source: Family, Batch, Father, Mother, Sex and
\* Disease status, each with the list of its values.
Characteristics(family, batch, father, mother, sex, status) ==
    << Attr(S_Family, family), Attr(S_Batch, batch), Attr(S_Father, father),
       Attr(S_Mother, mother), Attr(S_Sex, sex), Attr(S_DiseaseStatus, status) >>

Without(characteristics, name) ==
    SelectSeq(characteristics, LAMBDA c : c.name /= name)

SourceNode(name, characteristics) == Material("Source Name", name, characteristics)

SampleNode(name) == Material("Sample Name", name, <<>>)

V_F1 == <<"F","1">>
V_1 == <<"1">>
V_2 == <<"2">>
V_P8 == <<"p","8">>
V_P9 == <<"p","9">>

\* Sources whose six characteristics all have a non-empty value.
SRC_female == SourceNode(<<"p","1">>,
    Characteristics(<<V_F1>>, <<V_1>>, <<V_P8>>, <<V_P9>>,
                    << <<"F","e","m","a","l","e">> >>,
                    << <<"A","F","F","E","C","T","E","D">> >>))
SRC_male == SourceNode(<<"p","2">>,
    Characteristics(<<V_F1>>, <<V_1>>, <<S_0>>, <<S_0>>,
                    << S_male >>, << <<"C","a","r","r","i","e","r">> >>))
SRC_unknown == SourceNode(<<"p","3">>,
    Characteristics(<<V_F1>>, <<V_2>>, <<S_0>>, <<S_0>>,
                    << <<"U","N","K","N","O","W","N">> >>, << S_unaffected >>))
\* Family, Batch, Father and Mother with the empty str as value.
SRC_empty == SourceNode(<<"p","4">>,
    Characteristics(<< <<>> >>, << <<>> >>, << <<>> >>, << <<>> >>,
                    << <<"M","A","L","E">> >>,
                    << <<"U","n","k","n","o","w","n">> >>))
\* Family, Batch, Father and Mother with None as value.
SRC_none == SourceNode(<<"p","5">>,
    Characteristics(<<NoneVal>>, <<NoneVal>>, <<NoneVal>>, <<NoneVal>>,
                    << S_female >>, << S_affected >>))
\* No Father characteristic.
SRC_no_father == SourceNode(<<"p","6">>,
    Without(Characteristics(<<V_F1>>, <<V_1>>, <<S_0>>, <<S_0>>,
                            << S_female >>, << S_affected >>), S_Father))
\* A Batch characteristic without any value.
SRC_no_batch_value == SourceNode(<<"p","7">>,
    Characteristics(<<V_F1>>, <<>>, <<S_0>>, <<S_0>>, << S_male >>, << S_carrier >>))
\* Sex absent.
SRC_sex_none == SourceNode(<<"p","8">>,
    Characteristics(<<V_F1>>, <<V_1>>, <<S_0>>, <<S_0>>, <<NoneVal>>, << S_affected >>))
\* Disease status absent.
SRC_status_none == SourceNode(<<"p","9">>,
    Characteristics(<<V_F1>>, <<V_1>>, <<S_0>>, <<S_0>>, << S_male >>, <<NoneVal>>))

\* The library preparation process and the library of an assay.
LibraryNode(name, characteristics) == Material("Library Name", name, characteristics)

PROC_kit == Process(<<"p">>, << Attr(S_LibraryKit, << <<"k","1">> >>),
                               Attr(S_InstrumentModel, << <<"m">>, <<"n">> >>) >>)
PROC_empty_kit == Process(<<"p">>, << Attr(S_LibraryKit, << <<>> >>) >>)
PROC_plain == Process(<<"p">>, <<>>)

LIB_wgs == LibraryNode(<<"a","-","W","G","S","1">>,
                       << Attr(<<"F","o","l","d","e","r"," ","n","a","m","e">>,
                               << <<"f","1">> >>) >>)
LIB_wes == LibraryNode(S_WES, <<>>)
LIB_panel == LibraryNode(<<"a","-","b","-">> \o S_Panel_seq \o <<"2">>,
                         << Attr(S_FolderName, <<>>) >>)
LIB_wgs_first == LibraryNode(<<"W","G","S","-","x">>, <<>>)
LIB_lower == LibraryNode(<<"a","-","w","g","s","1">>, <<>>)
LIB_empty_last == LibraryNode(<<"W","E","S","1","-">>, <<>>)
LIB_short == LibraryNode(<<"a","-","W","E">>, <<>>)

Call(material, node_path, assay) ==
    [material |-> material, node_path |-> node_path, assay |-> assay]

\* A study: the source, then the sample collected from it.
StudySourceCall(source) == Call(source, <<source>>, FALSE)
StudySampleCall(source, name) ==
    Call(SampleNode(name), <<source, PROC_plain, SampleNode(name)>>, FALSE)

\* An assay: the sample, then the library prepared from it.
AssaySampleCall(name) == Call(SampleNode(name), <<SampleNode(name)>>, TRUE)
AssayLibraryCall(name, process, library) ==
    Call(library, <<SampleNode(name), process, library>>, TRUE)

\* The calls a traversal can make, numbered.
Calls ==
    << StudySourceCall(SRC_female),
       AssaySampleCall(SAMPLE_1),
       StudySampleCall(SRC_female, SAMPLE_1),
       StudySampleCall(SRC_male, SAMPLE_1),
       StudySampleCall(SRC_unknown, SAMPLE_1),
       StudySampleCall(SRC_empty, SAMPLE_1),
       StudySampleCall(SRC_none, SAMPLE_1),
       StudySampleCall(SRC_no_father, SAMPLE_1),
       StudySampleCall(SRC_no_batch_value, SAMPLE_1),
       StudySampleCall(SRC_sex_none, SAMPLE_1),
       StudySampleCall(SRC_status_none, SAMPLE_1),
       StudySampleCall(SRC_male, SAMPLE_2),
       AssayLibraryCall(SAMPLE_1, PROC_kit, LIB_wgs),
       AssayLibraryCall(SAMPLE_1, PROC_plain, LIB_wes),
       AssayLibraryCall(SAMPLE_1, PROC_empty_kit, LIB_panel),
       AssayLibraryCall(SAMPLE_1, PROC_plain, LIB_wgs_first),
       AssayLibraryCall(SAMPLE_1, PROC_plain, LIB_lower),
       AssayLibraryCall(SAMPLE_1, PROC_plain, LIB_empty_last),
       AssayLibraryCall(SAMPLE_1, PROC_plain, LIB_short),
       AssayLibraryCall(SAMPLE_2, PROC_kit, LIB_wgs) >>

\* The values of --library-types on the command line; None when not given.
LibraryTypesArgs == {NoneVal, S_WGS \o <<",">> \o S_WES}

(***************************************************************************)
(* The state.                                                              *)
(***************************************************************************)
VARIABLES
    library_types,  \* config.library_types
    sources,        \* builder.sources: Source by sample name
    samples,        \* builder.samples: Sample by sample name
    phase,          \* "walk": iwalker.run(builder) is visiting;
                    \* "visit_failed": on_visit_material raised;
                    \* "render_failed": the rendering of the rows raised;
                    \* "done": build_sheet returned
    result,         \* the exception raised and the rows returned
    log,            \* the on_visit_material calls made so far, as indexes of Calls
    fv              \* a call of first_value: its arguments and what it returned

vars == <<library_types, sources, samples, phase, result, log, fv>>

NoResult == [exc |-> "none", rows |-> <<>>]

FvIdle ==
    [key |-> <<>>, node_path |-> <<>>, default |-> NoneVal, ignore_case |-> TRUE,
     called |-> FALSE, result |-> NoneVal]

\* run(): check_args, then build_sheet creates the SampleSheetBuilder.
Init ==
    /\ \E arg \in LibraryTypesArgs : library_types = check_args(arg)
    /\ sources = <<>>
    /\ samples = <<>>
    /\ phase = "walk"
    /\ result = NoResult
    /\ log = <<>>
    /\ fv = FvIdle

\* iwalker.run(builder) calls on_visit_material; an exception ends build_sheet.
OnVisitMaterial(c) ==
    /\ phase = "walk"
    /\ Len(log) < MaxVisits
    /\ LET call == Calls[c]
           out == on_visit_material(sources, samples, call.material,
                                    call.node_path, call.assay)
       IN  /\ sources' = out.sources
           /\ samples' = out.samples
           /\ phase' = IF out.exc = "none" THEN "walk" ELSE "visit_failed"
           /\ result' = [exc |-> out.exc, rows |-> <<>>]
    /\ log' = Append(log, c)
    /\ UNCHANGED <<library_types, fv>>

\* The traversal is over: build_sheet renders the rows.
BuildSheet ==
    /\ phase = "walk"
    /\ result' = build_sheet(library_types, sources, samples, PROJECT_UUID)
    /\ phase' = IF result'.exc = "none" THEN "done" ELSE "render_failed"
    /\ UNCHANGED <<library_types, sources, samples, log, fv>>

Next ==
    \/ \E c \in DOMAIN Calls : OnVisitMaterial(c)
    \/ BuildSheet

Spec == Init /\ [][Next]_vars

(***************************************************************************)
(* first_value on its own: the arguments are drawn from the node paths of  *)
(* at most MaxPathLen nodes.                                               *)
(***************************************************************************)
S_folder_name == <<"f","o","l","d","e","r"," ","n","a","m","e">>
S_Folder_name == <<"F","o","l","d","e","r"," ","n","a","m","e">>

FN_library ==
    LibraryNode(<<"l">>, << Attr(S_Folder_name, << <<"f","1">> >>),
                           Attr(S_FolderName, << <<"f","2">>, <<"f","3">> >>) >>)
FN_process ==
    Process(<<"p">>, << Attr(S_LibraryKit, << <<"k">> >>), Attr(S_folder_name, <<>>) >>)
\* An object with characteristics and parameter values.
FN_both ==
    [kind |-> "process", type |-> "", name |-> <<"b">>,
     characteristics |-> << Attr(S_LibraryKit, << <<"c">> >>) >>,
     parameter_values |-> << Attr(S_FolderName, << <<"p">> >>),
                             Attr(S_LibraryKit, << <<"q">> >>) >>]
FN_other == SampleNode(SAMPLE_1)

FvNodes == {FN_library, FN_process, FN_both, FN_other}
FvPaths == UNION {[1..n -> FvNodes] : n \in 0..MaxPathLen}
FvKeys == {S_FolderName, S_folder_name, S_LibraryKit}
FvDefaults == {NoneVal, S_Dot}

InitFV ==
    /\ library_types = <<>>
    /\ sources = <<>>
    /\ samples = <<>>
    /\ phase = "walk"
    /\ result = NoResult
    /\ log = <<>>
    /\ \E key \in FvKeys, node_path \in FvPaths, default \in FvDefaults,
          ignore_case \in BOOLEAN :
          fv = [key |-> key, node_path |-> node_path, default |-> default,
                ignore_case |-> ignore_case, called |-> FALSE, result |-> NoneVal]

FirstValueCall ==
    /\ ~fv.called
    /\ fv' = [fv EXCEPT !.called = TRUE,
                        !.result = first_value(fv.key, fv.node_path, fv.default,
                                                fv.ignore_case)]
    /\ UNCHANGED <<library_types, sources, samples, phase, result, log>>

NextFV == FirstValueCall

SpecFV == InitFV /\ [][NextFV]_vars

(***************************************************************************)
(* Vocabulary of the properties.                                           *)
(***************************************************************************)
\* The call of the i-th visit.
Visit(i) == Calls[log[i]]

\* The visit of a sample of a study (line 209), of a library (line 222).
IsSampleVisit(call) == call.material.type = "Sample Name" /\ ~call.assay
IsLibraryVisit(call) == call.material.type = "Library Name"

\* The sample name a visit is about: the table key it writes.
VisitKey(call) ==
    IF IsSampleVisit(call) THEN call.material.name ELSE call.node_path[1].name

\* build_sheet got to the rendering: every visit of the traversal succeeded.
Rendered == phase \in {"done", "render_failed"}

\* The sample names of the study visits, each at its first visit.
RECURSIVE FirstVisits(_)
FirstVisits(n) ==
    IF n = 0 THEN <<>>
    ELSE LET before == FirstVisits(n - 1)
             call == Visit(n)
         IN  IF IsSampleVisit(call)
                /\ \A i \in 1..Len(before) : before[i] /= call.material.name
             THEN Append(before, call.material.name)
             ELSE before

\* a and b are the same word up to the case of its letters.
SameLetter(x, y) ==
    \/ x = y
    \/ \E i \in DOMAIN UpperChars :
          {x, y} = {UpperChars[i], LowerChars[i]}

IsCasingOf(a, b) ==
    /\ a /= NoneVal
    /\ Len(a) = Len(b)
    /\ \A i \in 1..Len(b) : SameLetter(a[i], b[i])

\* The enumerated attribute values and their sheet columns, as the claim lists them.
SexColumns ==
    { <<S_female, S_F>>, <<S_male, S_M>>, <<S_unknown, S_U>> }
StatusColumns ==
    { <<S_affected, S_Y>>, <<S_carrier, S_Y>>, <<S_unaffected, S_N>>,
      <<S_unknown, S_Dot>> }

EverySourceHasSample == \A k \in Keys(sources) : Has(samples, k)
NoAttributeIsNone ==
    \A i \in 1..Len(sources) :
        sources[i].val.sex /= NoneVal /\ sources[i].val.affected /= NoneVal

(***************************************************************************)
(* C1: whenever every visit of the traversal succeeded, build_sheet        *)
(* returns exactly one row per sample name that has a Source, in the order *)
(* of the first visits of those names.                                     *)
(***************************************************************************)
C1_OneRowPerSampleInFirstVisitOrder ==
    Rendered =>
        LET names == FirstVisits(Len(log))
        IN  /\ result.exc = "none"
            /\ Len(result.rows) = Len(names)
            /\ \A i \in 1..Len(names) :
                  /\ Has(sources, names[i])
                  /\ result.rows[i] =
                        Row(Get(sources, names[i]),
                            dict_get(samples, names[i], NoneSample), PROJECT_UUID)

(***************************************************************************)
(* C2: for every recorded Source the sex and isAffected cells build_sheet  *)
(* computes are the listed columns of the attribute value, whatever the    *)
(* case of its letters; they are the cells of the returned rows.           *)
(***************************************************************************)
C2_EnumeratedAttributesMapped ==
    \A i \in 1..Len(sources) :
        LET source == sources[i].val
            row == Row(source, dict_get(samples, sources[i].key, NoneSample),
                       PROJECT_UUID)
        IN  /\ \A m \in SexColumns :
                  IsCasingOf(source.sex, m[1]) =>
                      /\ row[COL_sex] = m[2]
                      /\ phase = "done" => result.rows[i][COL_sex] = m[2]
            /\ \A m \in StatusColumns :
                  IsCasingOf(source.affected, m[1]) =>
                      /\ row[COL_isAffected] = m[2]
                      /\ phase = "done" => result.rows[i][COL_isAffected] = m[2]

\* A sheet was returned with the row of a source of sex "Female", status "AFFECTED".
C2_Witness ==
    /\ phase = "done"
    /\ \E i \in 1..Len(sources) :
          /\ sources[i].val.sex = <<"F","e","m","a","l","e">>
          /\ sources[i].val.affected = <<"A","F","F","E","C","T","E","D">>
          /\ result.rows[i][COL_sex] = S_F
          /\ result.rows[i][COL_isAffected] = S_Y

(***************************************************************************)
(* C3: a Source whose sex or disease status is None does not make          *)
(* build_sheet fail, and its row has "." in that column. (Stated for the   *)
(* traversals in which every source has a sample.)                         *)
(***************************************************************************)
C3_NoneAttributeRendersDot ==
    Rendered /\ EverySourceHasSample =>
        \A i \in 1..Len(sources) :
            /\ sources[i].val.sex = NoneVal =>
                  result.exc = "none" /\ result.rows[i][COL_sex] = S_Dot
            /\ sources[i].val.affected = NoneVal =>
                  result.exc = "none" /\ result.rows[i][COL_isAffected] = S_Dot

(***************************************************************************)
(* C4: every study visit of a sample records a Source, also when the       *)
(* source's Family, Father, Mother or Batch characteristic is missing or   *)
(* empty, and the returned row has the defaults FAM, 0, 0 and 0 there.     *)
(***************************************************************************)
IsEmptyValue(x) == x = NoneVal \/ x = <<>>

C4_MissingCharacteristicsDefault ==
    /\ \A j \in 1..Len(log) :
          IsSampleVisit(Visit(j)) => Has(sources, Visit(j).material.name)
    /\ phase = "done" =>
          \A i \in 1..Len(sources) :
              LET source == sources[i].val
                  row == result.rows[i]
              IN  /\ IsEmptyValue(source.family) => row[COL_familyId] = S_FAM
                  /\ IsEmptyValue(source.father) => row[COL_fatherName] = S_0
                  /\ IsEmptyValue(source.mother) => row[COL_motherName] = S_0
                  /\ IsEmptyValue(source.batch_no) => row[COL_batchNo] = S_0

(***************************************************************************)
(* C5: a sample name with a Source but no Sample still gets its row, with  *)
(* "." as libraryType, folderName and libraryKit; a Sample whose folder    *)
(* name or library kit is None or empty has "." in that column. (Stated    *)
(* for the traversals in which no sex or disease status is None.)          *)
(***************************************************************************)
C5_MissingSampleRendersDots ==
    Rendered /\ NoAttributeIsNone =>
        /\ result.exc = "none"
        /\ \A i \in 1..Len(sources) :
              LET k == sources[i].key
                  row == result.rows[i]
              IN  IF ~Has(samples, k)
                  THEN /\ row[COL_libraryType] = S_Dot
                       /\ row[COL_folderName] = S_Dot
                       /\ row[COL_libraryKit] = S_Dot
                  ELSE /\ IsEmptyValue(Get(samples, k).folder_name) =>
                              row[COL_folderName] = S_Dot
                       /\ IsEmptyValue(Get(samples, k).library_kit) =>
                              row[COL_libraryKit] = S_Dot

(***************************************************************************)
(* C6: when --library-types names library types, every row of the sheet is *)
(* the row of a sample whose library type is one of them.                  *)
(***************************************************************************)
C6_OnlyGivenLibraryTypes ==
    phase = "done" /\ Len(library_types) > 0 =>
        \A i \in 1..Len(sources) :
            /\ Has(samples, sources[i].key)
            /\ \E j \in 1..Len(library_types) :
                  library_types[j] = Get(samples, sources[i].key).library_type

(***************************************************************************)
(* C7, as claimed: an entry of sources or of samples, once stored, is      *)
(* never assigned again: no later visit replaces or changes it.            *)
(***************************************************************************)
C7_EntriesAssignedOnce ==
    [][ /\ \A k \in Keys(sources) :
              Has(sources', k) /\ Get(sources', k) = Get(sources, k)
        /\ \A k \in Keys(samples) :
              Has(samples', k) /\ Get(samples', k) = Get(samples, k) ]_vars

\* The call of the visit a step makes.
LastVisit == Visit(Len(log))

(***************************************************************************)
(* C7, amended: no entry is removed or moved, and an entry changes only by *)
(* being replaced as a whole: a successful study visit of sample name k    *)
(* stores the Source built from the visited source under k, a successful   *)
(* library visit of a library of sample k stores the Sample built from the *)
(* library under k, each replacing the entry a previous visit of k stored; *)
(* visits of other names leave the entry as it is.                         *)
(***************************************************************************)
C7_EntriesChangeOnlyByReplacement ==
    [][ /\ KeyList(sources) = SubSeq(KeyList(sources'), 1, Len(sources))
        /\ KeyList(samples) = SubSeq(KeyList(samples'), 1, Len(samples))
        /\ \A k \in Keys(sources) :
              Get(sources', k) /= Get(sources, k) =>
                  IsSampleVisit(LastVisit') /\ VisitKey(LastVisit') = k
        /\ \A k \in Keys(samples) :
              Get(samples', k) /= Get(samples, k) =>
                  IsLibraryVisit(LastVisit') /\ VisitKey(LastVisit') = k
        /\ log' /= log /\ phase' = "walk" /\ IsSampleVisit(LastVisit') =>
              /\ Has(sources', VisitKey(LastVisit'))
              /\ Get(sources', VisitKey(LastVisit')).source_name
                    = LastVisit'.node_path[1].name
              /\ Get(sources', VisitKey(LastVisit')).sample_name
                    = VisitKey(LastVisit')
        /\ log' /= log /\ phase' = "walk" /\ IsLibraryVisit(LastVisit') =>
              /\ Has(samples', VisitKey(LastVisit'))
              /\ Get(samples', VisitKey(LastVisit')).library_name
                    = LastVisit'.material.name ]_vars

\* A sample had two libraries: the second visit replaced its entry of samples.
C7_Witness ==
    /\ phase = "walk"
    /\ \E i, j \in 1..Len(log) :
          /\ i < j
          /\ IsLibraryVisit(Visit(i)) /\ IsLibraryVisit(Visit(j))
          /\ VisitKey(Visit(i)) = VisitKey(Visit(j))
          /\ Visit(i).material.name /= Visit(j).material.name
          /\ \A n \in (j + 1)..Len(log) : ~IsLibraryVisit(Visit(n))
          /\ Len(samples) = 1
          /\ Get(samples, VisitKey(Visit(j))).library_name = Visit(j).material.name

(***************************************************************************)
(* C8: a library visit infers the library type from the part of the        *)
(* library name after its last "-": WGS, WES or Panel_seq when that part   *)
(* starts with it; for any other name the visit raises Exception and       *)
(* leaves both tables as they were.                                        *)
(***************************************************************************)
\* The part of name after its last "-", the whole name when it has none.
AfterLastDash(name) ==
    LET dashes == {i \in 1..Len(name) : name[i] = "-"}
        start == IF dashes = {} THEN 1
                 ELSE (CHOOSE i \in dashes : \A j \in dashes : j <= i) + 1
    IN  [i \in 1..(Len(name) - start + 1) |-> name[start + i - 1]]

BeginsWith(s, word) ==
    /\ Len(s) >= Len(word)
    /\ \A i \in 1..Len(word) : s[i] = word[i]

KnownLibraryTypes == {S_WGS, S_WES, S_Panel_seq}

C8_LibraryTypeInferred ==
    [][ log' /= log /\ IsLibraryVisit(LastVisit') =>
          LET seg == AfterLastDash(LastVisit'.material.name)
              types == {w \in KnownLibraryTypes : BeginsWith(seg, w)}
          IN  IF types = {}
              THEN /\ result'.exc = "Exception"
                   /\ phase' = "visit_failed"
                   /\ sources' = sources
                   /\ samples' = samples
              ELSE /\ result'.exc /= "Exception"
                   /\ result'.exc = "none" =>
                          /\ Has(samples', VisitKey(LastVisit'))
                          /\ {Get(samples', VisitKey(LastVisit')).library_type} = types
      ]_vars

\* The visit of library "WGS-x" raised, after a Source and a Sample were recorded.
C8_Witness ==
    /\ phase = "visit_failed"
    /\ result.exc = "Exception"
    /\ LastVisit.material.name = <<"W","G","S","-","x">>
    /\ Len(sources) = 1
    /\ Len(samples) = 1
    /\ Get(samples, SAMPLE_1).library_type = S_Panel_seq

(***************************************************************************)
(* C9, as claimed: every key of samples is a key of sources, and the       *)
(* Source of samples[k] equals the Source stored in sources[k].            *)
(***************************************************************************)
C9_SampleSourceIsCurrent ==
    \A k \in Keys(samples) :
        Has(sources, k) /\ Get(samples, k).source = Get(sources, k)

(***************************************************************************)
(* C9, amended: every key of samples is a key of sources; the Source of    *)
(* samples[k] equals sources[k] when a visit stores samples[k], and stops  *)
(* being equal to it only by a later study visit of sample name k, which   *)
(* replaces sources[k] and leaves samples[k] with the earlier Source.      *)
(***************************************************************************)
C9_SampleSourceWasStored ==
    [][ \A k \in SampleNames :
          Has(samples', k) =>
              /\ Has(sources', k)
              /\ Get(samples', k).source.sample_name = k
              /\ (~Has(samples, k) \/ Get(samples', k) /= Get(samples, k)) =>
                    Get(samples', k).source = Get(sources', k)
              /\ (/\ Get(samples', k).source /= Get(sources', k)
                  /\ Has(samples, k)
                  /\ Get(samples, k).source = Get(sources, k)) =>
                    /\ IsSampleVisit(LastVisit') /\ VisitKey(LastVisit') = k
                    /\ Get(samples', k) = Get(samples, k) ]_vars

\* samples[s1] holds a Source that a later study visit replaced in sources.
C9_Witness ==
    /\ Has(samples, SAMPLE_1)
    /\ Has(sources, SAMPLE_1)
    /\ Get(samples, SAMPLE_1).source /= Get(sources, SAMPLE_1)
    /\ Get(samples, SAMPLE_1).source.sample_name = SAMPLE_1

(***************************************************************************)
(* C10: first_value returns the ";"-joined values of the first attribute   *)
(* whose name matches key, in the order of the nodes of node_path and, in  *)
(* a node, characteristics before parameter values; names match up to case *)
(* when ignore_case, exactly otherwise; default when none matches.         *)
(***************************************************************************)
RECURSIVE AttrsInOrder(_)
AttrsInOrder(node_path) ==
    IF Len(node_path) = 0 THEN <<>>
    ELSE AttrsInOrder(SubSeq(node_path, 1, Len(node_path) - 1))
         \o node_path[Len(node_path)].characteristics
         \o node_path[Len(node_path)].parameter_values

C10_FirstValue ==
    fv.called =>
        LET xs == AttrsInOrder(fv.node_path)
            hits == {i \in 1..Len(xs) :
                        IF fv.ignore_case THEN IsCasingOf(xs[i].name, fv.key)
                        ELSE xs[i].name = fv.key}
        IN  IF hits = {}
            THEN fv.result = fv.default
            ELSE \E i \in hits :
                    /\ \A j \in hits : i <= j
                    /\ fv.result = join(S_Semicolon, xs[i].value)

\* The match is a parameter value of the second node, its name in another case.
C10_Witness ==
    /\ fv.called
    /\ fv.ignore_case
    /\ fv.key = S_folder_name
    /\ fv.default = S_Dot
    /\ fv.node_path = <<FN_other, FN_both>>
    /\ fv.result = <<"p">>

====
